---------------------------- MODULE Spec2Model ----------------------------
(***************************************************************************)
(* WWDC Momentum Dashboard (src/src/WWDCMomentumDashboard.tsx, v2.2).      *)
(*                                                                         *)
(* The React component's state (buy, sell, results, loading, error), the   *)
(* asynchronous invocations of runBacktest and the price lookup fetchOHLC. *)
(*                                                                         *)
(* Encodings                                                               *)
(*   - a JS value that is a number or null is a record [t, v]: Num(x) or   *)
(*     Null; a state that is a value or null is a record with isNull;      *)
(*   - array indices are the 0-based indices of the source (At reads one); *)
(*   - a calendar date "yyyy-mm-dd" is kept as its string; toEpoch gives   *)
(*     its epoch seconds and IsoDay the UTC day of a timestamp, so that    *)
(*     the comparison of line 66 compares days;                            *)
(*   - a return is kept in hundredths of a percent (2.00 % is 200), which  *)
(*     is what toFixed(2) leaves; Infinity, -Infinity and NaN are kinds.   *)
(***************************************************************************)
EXTENDS Integers, Sequences, FiniteSets, TLC

\* ------------------------------------------------------------------ bounds

\* How many of the six configured events a run iterates over.
NumEvents == 2
\* How many times the Run Backtest button is clicked in one behaviour.
MaxRuns == 2
\* fetchOHLC as a function: longest series and widest offset tried.
MaxLen == 3
MaxOff == 2

\* --------------------------------------------------------------- constants

AllWwdcDates ==
  << [year |-> 2019, date |-> "2019-06-03"],
     [year |-> 2020, date |-> "2020-06-22"],
     [year |-> 2021, date |-> "2021-06-07"],
     [year |-> 2022, date |-> "2022-06-06"],
     [year |-> 2023, date |-> "2023-06-05"],
     [year |-> 2024, date |-> "2024-06-10"] >>

Min(a, b) == IF a < b THEN a ELSE b

wwdcDates == SubSeq(AllWwdcDates, 1, Min(NumEvents, Len(AllWwdcDates)))

DaySecs == 60 * 60 * 24

toEpoch(d) ==
  CASE d = "2019-06-03" -> 1559520000
    [] d = "2020-06-22" -> 1592784000
    [] d = "2021-06-07" -> 1623024000
    [] d = "2022-06-06" -> 1654473600
    [] d = "2023-06-05" -> 1685923200
    [] d = "2024-06-10" -> 1717977600

\* new Date(t * 1000).toISOString().slice(0, 10): the UTC day of t.
IsoDay(t) == t \div DaySecs

buyOffsets ==
  << [label |-> "5 sessions before", val |-> -5],
     [label |-> "1 session before", val |-> -1],
     [label |-> "Open day-of", val |-> 0] >>

sellOffsets ==
  << [label |-> "Close day-of", val |-> 0],
     [label |-> "5 sessions after", val |-> 5],
     [label |-> "20 sessions after", val |-> 20] >>

buildYahooChartURL(date) ==
  [period1 |-> toEpoch(date) - DaySecs * 40,
   period2 |-> toEpoch(date) + DaySecs * 40]

\* ------------------------------------------------------------- JS values

Num(x) == [t |-> "num", v |-> x]
Null == [t |-> "null", v |-> 0]

At(s, i) == s[i + 1]

Range(s) == {s[i] : i \in 1..Len(s)}

\* ------------------------------------------------------------- fetchOHLC

MsgNetwork(status) == IF status = 500 THEN "Network error 500" ELSE "Network error"
MsgFetchFailed == "Failed to fetch"
MsgNotJson == "Unexpected token < in JSON at position 0"
MsgMalformed == "Malformed Yahoo payload"
MsgNoTimestamp == "Cannot read properties of undefined (reading 'findIndex')"
MsgOffset == "Offset outside range"
MsgMissing == "Close price missing"

\* timestamp.findIndex(t => day(t) === date): the first match, or -1.
FindIndex(timestamp, date) ==
  LET hits == {i \in 0..(Len(timestamp) - 1) :
                 IsoDay(At(timestamp, i)) = IsoDay(toEpoch(date))}
  IN IF hits = {} THEN -1
     ELSE CHOOSE i \in hits : \A j \in hits : i <= j

Threw(m) == [ok |-> FALSE, price |-> 0, msg |-> m]
Returned(p) == [ok |-> TRUE, price |-> p, msg |-> ""]

\* A lookup that clamps the sum to the first or last session instead of throwing.
TargetIdxClamped(idx, offset, n) ==
  IF idx < 0 \/ n = 0 THEN -1
  ELSE IF idx + offset < 0 THEN 0
  ELSE IF idx + offset >= n THEN n - 1
  ELSE idx + offset

\* Lines 67-68 with the date located at idx: the index read, or -1 for the throw.
TargetIdx(idx, offset, n) ==
  IF idx < 0 \/ idx + offset < 0 \/ idx + offset >= n THEN -1 ELSE idx + offset

\* Lines 69-71: the price at targetIdx, or the throw for a missing one.
ReadPrice(closes, targetIdx) ==
  IF At(closes, targetIdx).t = "null" THEN Threw(MsgMissing)
  ELSE Returned(At(closes, targetIdx).v)

\* Lines 62-71: fetchOHLC once the JSON body has been parsed.
ParseOHLC(body, date, offset) ==
  IF ~body.hasResult THEN Threw(MsgMalformed)
  ELSE IF ~body.hasTimestamp THEN Threw(MsgNoTimestamp)
  ELSE LET closes == body.close
           idx == FindIndex(body.timestamp, date)
           targetIdx == TargetIdx(idx, offset, Len(closes))
       IN IF targetIdx < 0 THEN Threw(MsgOffset)
          ELSE ReadPrice(closes, targetIdx)


\* ------------------------------------------------------- returns and stats

Fin(x) == [k |-> "fin", v |-> x]
Inf == [k |-> "inf", v |-> 0]
NegInf == [k |-> "-inf", v |-> 0]
NaN == [k |-> "nan", v |-> 0]

\* a / b rounded to the nearest integer, ties away from zero (toFixed), b > 0.
RoundDiv(a, b) ==
  IF a >= 0 THEN (2 * a + b) \div (2 * b) ELSE -((2 * (-a) + b) \div (2 * b))

\* +(((sellP - buyP) / buyP) * 100).toFixed(2), in hundredths of a percent.
PctReturn(buyP, sellP) ==
  IF buyP = 0
    THEN IF sellP > 0 THEN Inf ELSE IF sellP < 0 THEN NegInf ELSE NaN
    ELSE IF buyP > 0 THEN Fin(RoundDiv((sellP - buyP) * 10000, buyP))
    ELSE Fin(RoundDiv((buyP - sellP) * 10000, -buyP))

EventRow(ev, ret) == [typ |-> "number", year |-> ev.year, tag |-> "", ret |-> ret]
AggRow(name, ret) == [typ |-> "string", year |-> 0, tag |-> name, ret |-> ret]

RECURSIVE SumFin(_)
SumFin(rows) ==
  IF rows = <<>> THEN 0 ELSE Head(rows).ret.v + SumFin(Tail(rows))

RECURSIVE SumSq(_)
SumSq(rows) ==
  IF rows = <<>> THEN 0 ELSE Head(rows).ret.v * Head(rows).ret.v + SumSq(Tail(rows))

Kinds(rows) == {rows[i].ret.k : i \in 1..Len(rows)}

\* The least k >= from with sqrt(x) / n < k + 1/2: sqrt(x) / n rounded.
RECURSIVE SqrtRound(_, _, _)
SqrtRound(x, n, from) ==
  IF 4 * x < (2 * from + 1) * (2 * from + 1) * n * n THEN from
  ELSE SqrtRound(x, n, from + 1)

\* Line 91 and 96: the sum of the returns over their number, to 2 decimals.
Mean(rows) ==
  LET ks == Kinds(rows)
  IN IF "nan" \in ks \/ ("inf" \in ks /\ "-inf" \in ks) THEN NaN
     ELSE IF "inf" \in ks THEN Inf
     ELSE IF "-inf" \in ks THEN NegInf
     ELSE Fin(RoundDiv(SumFin(rows), Len(rows)))

\* Line 92 and 97: the population standard deviation about the unrounded mean;
\* a non-finite return makes a term Infinity - Infinity, hence NaN.
StDev(rows) ==
  LET n == Len(rows)
  IN IF Kinds(rows) # {"fin"} THEN NaN
     ELSE Fin(SqrtRound(n * SumSq(rows) - SumFin(rows) * SumFin(rows), n, 0))

\* Line 93 and 98: the share of returns > 0, as a whole percentage.
WinRate(rows) ==
  LET wins == {i \in 1..Len(rows) :
                 \/ rows[i].ret.k = "inf"
                 \/ rows[i].ret.k = "fin" /\ rows[i].ret.v > 0}
  IN Fin(100 * RoundDiv(Cardinality(wins) * 100, Len(rows)))

\* The aggregate rows put before the rows of the events.
SummaryRowsAggFirst(rows) ==
  << AggRow("Avg", Mean(rows)),
     AggRow("StDev", StDev(rows)),
     AggRow("WinRate", WinRate(rows)) >> \o rows

\* Lines 94-99: the list handed to setResults.
SummaryRows(rows) ==
  rows \o << AggRow("Avg", Mean(rows)),
             AggRow("StDev", StDev(rows)),
             AggRow("WinRate", WinRate(rows)) >>

\* ------------------------------------------------- the price data provider

Body(isJson, hasResult, hasTimestamp, timestamp, close) ==
  [isJson |-> isJson, hasResult |-> hasResult, hasTimestamp |-> hasTimestamp,
   timestamp |-> timestamp, close |-> close]

\* The statuses fetch may resolve with (res.ok is status in 200..299).
Statuses == {200, 500}

\* Daily sessions (13:30 UTC) of the days lo..hi around date d.
Sessions(d, lo, hi) ==
  [i \in 1..(hi - lo + 1) |-> toEpoch(d) + (lo + i - 1) * DaySecs + 13 * 3600 + 1800]

\* The bodies the provider may send for the window around d:
\*  1 a page that is not JSON
\*  2 JSON without chart.result     3 a result without timestamps
\*  4 a full window, every close 100
\*  5 a short window, from the day before the event to the fifth after it:
\*    0, then 99 on the event's day, then 100, and null on the last day
\*  6 a full window without the event's day (a holiday)
Bodies(d) ==
  LET full == Sessions(d, -5, 20)
      short == Sessions(d, -1, 5)
      holiday == SelectSeq(full, LAMBDA t : IsoDay(t) # IsoDay(toEpoch(d)))
  IN << Body(FALSE, FALSE, FALSE, <<>>, <<>>),
        Body(TRUE, FALSE, FALSE, <<>>, <<>>),
        Body(TRUE, TRUE, FALSE, <<>>, <<>>),
        Body(TRUE, TRUE, TRUE, full, [i \in 1..Len(full) |-> Num(100)]),
        Body(TRUE, TRUE, TRUE, short,
             [i \in 1..Len(short) |-> IF i = 1 THEN Num(0)
                                      ELSE IF i = 2 THEN Num(99)
                                      ELSE IF i = Len(short) THEN Null
                                      ELSE Num(100)]),
        Body(TRUE, TRUE, TRUE, holiday, [i \in 1..Len(holiday) |-> Num(100)]) >>

Dates == {AllWwdcDates[i].date : i \in 1..Len(AllWwdcDates)}

BodyTable == [d \in Dates |-> Bodies(d)]

NumBodies == Len(BodyTable["2019-06-03"])

\* Every body lies inside the window the URL of lines 52-56 asks for.
InWindow ==
  \A d \in Dates : \A k \in 1..NumBodies :
    \A t \in Range(BodyTable[d][k].timestamp) :
      buildYahooChartURL(d).period1 <= t /\ t <= buildYahooChartURL(d).period2

\* ------------------------------------------------------------------ state

VARIABLES
  buy,        \* useState(buyOffsets[1]): the selected entry offset
  sell,       \* useState(sellOffsets[0]): the selected exit offset
  results,    \* useState(null): the rows last handed to setResults
  loading,    \* useState(false)
  error,      \* useState(null): the message last handed to setError
  runs,       \* the invocations of runBacktest in flight, oldest first
  started,    \* history: how many invocations have started
  publisher,  \* history: the invocation whose setResults call results is from
  lastEnd,    \* history: how the last invocation ended, until the next one starts
  fIn,        \* fetchOHLC as a function: its parsed body, date and offset
  fOut        \* fetchOHLC as a function: what it returned or threw

vars == <<buy, sell, results, loading, error, runs, started, publisher, lastEnd,
          fIn, fOut>>
fnVars == <<fIn, fOut>>

NoResults == [isNull |-> TRUE, rows |-> <<>>]
Rows(rs) == [isNull |-> FALSE, rows |-> rs]
NoError == [isNull |-> TRUE, msg |-> ""]
Message(m) == [isNull |-> FALSE, msg |-> m]

NoEnd == [id |-> 0, pc |-> "none", i |-> 0, body |-> 0]

Slots == 1..Len(runs)
Event(r) == wwdcDates[runs[r].i]
BodyOf(r, k) == BodyTable[Event(r).date][k]
Without(r) == [j \in 1..(Len(runs) - 1) |-> IF j < r THEN runs[j] ELSE runs[j + 1]]

\* ------------------------------------------------------------- runBacktest

\* The entry offset read from the latest state instead of the closure's binding.
BuyArgLatest(r) == buy.val

\* The binding of buy (sell) that the invocation's closure reads at lines 87-88.
BuyArg(r) == runs[r].buy.val
SellArg(r) == runs[r].sell.val

\* A button that is never disabled.
ButtonNeverDisabled == FALSE

\* Line 141: disabled={loading}.
ButtonDisabled == loading

\* A start that clears results along with error.
ResultsClearedOnStart == NoResults

\* Lines 82-83 leave results as it is.
ResultsOnStart == results

\* A catch block that also publishes the rows collected so far.
OnCatchPartial(r, m) ==
  [error |-> Message(m), setResults |-> TRUE, rows |-> runs[r].rows]

\* Lines 100-101: what the catch block hands to the setters.
OnCatch(r, m) == [error |-> Message(m), setResults |-> FALSE, rows |-> <<>>]

\* setLoading(false) at the end of the try block instead of in finally.
LoadingOnSuccessOnly(threw) == IF threw THEN loading ELSE FALSE

\* Lines 102-104: setLoading(false), whether the try block threw or not.
LoadingOnFinally(threw) == FALSE

\* An exit price read from the body fetched for the entry price.
SellBodyShared(r, k) == BodyOf(r, runs[r].buyBody)

\* The body line 88's fetchOHLC call reads the exit price from: that of its own fetch.
SellBody(r, k) == BodyOf(r, k)

\* An exception reaches line 100: catch, then finally. k is the body that was
\* being read, 0 when none was.
Throw(r, k, m) ==
  /\ runs' = Without(r)
  /\ lastEnd' = [id |-> runs[r].id, pc |-> "failed", i |-> runs[r].i, body |-> k]
  /\ error' = OnCatch(r, m).error
  /\ results' = IF OnCatch(r, m).setResults THEN Rows(OnCatch(r, m).rows) ELSE results
  /\ publisher' = IF OnCatch(r, m).setResults THEN runs[r].id ELSE publisher
  /\ loading' = LoadingOnFinally(TRUE)
  /\ UNCHANGED <<buy, sell, started>>

\* onChange of the first select (line 131); it is never disabled.
SetBuy(k) ==
  /\ buyOffsets[k] # buy
  /\ buy' = buyOffsets[k]
  /\ UNCHANGED <<sell, results, loading, error, runs, started, publisher, lastEnd,
                 fnVars>>

\* onChange of the second select (line 136).
SetSell(k) ==
  /\ sellOffsets[k] # sell
  /\ sell' = sellOffsets[k]
  /\ UNCHANGED <<buy, results, loading, error, runs, started, publisher, lastEnd,
                 fnVars>>

\* onClick (line 141): lines 82-87 up to the first await.
Click ==
  /\ ~ButtonDisabled
  /\ started < MaxRuns
  /\ started' = started + 1
  /\ loading' = TRUE
  /\ error' = NoError
  /\ results' = ResultsOnStart
  /\ runs' = Append(runs, [id |-> started + 1, pc |-> "buy_fetch",
                           buy |-> buy, sell |-> sell, i |-> 1,
                           rows |-> <<>>, src |-> <<>>, buyP |-> 0, buyBody |-> 0,
                           off |-> buy.val])
  /\ lastEnd' = NoEnd
  /\ UNCHANGED <<buy, sell, publisher, fnVars>>

\* await fetch(...) rejects (line 59): the network is down.
FetchReject(r) ==
  /\ runs[r].pc \in {"buy_fetch", "sell_fetch"}
  /\ Throw(r, 0, MsgFetchFailed)
  /\ UNCHANGED fnVars

\* await fetch(...) resolves with a status (lines 59-61); the body is still to come.
FetchResolve(r, status) ==
  /\ runs[r].pc \in {"buy_fetch", "sell_fetch"}
  /\ IF status # 200
       THEN Throw(r, 0, MsgNetwork(status))
       ELSE /\ runs' = [runs EXCEPT
                          ![r].pc = IF runs[r].pc = "buy_fetch" THEN "buy_json"
                                    ELSE "sell_json"]
            /\ UNCHANGED <<buy, sell, results, loading, error, started, publisher,
                           lastEnd>>
  /\ UNCHANGED fnVars

\* await res.json() settles with body k for the entry price (lines 61-71, 87-88).
BuyParsed(r, k) ==
  /\ runs[r].pc = "buy_json"
  /\ LET body == BodyOf(r, k)
         out == ParseOHLC(body, Event(r).date, runs[r].off)
     IN IF ~body.isJson THEN Throw(r, k, MsgNotJson)
        ELSE IF ~out.ok THEN Throw(r, k, out.msg)
        ELSE /\ runs' = [runs EXCEPT ![r].pc = "sell_fetch",
                                     ![r].buyP = out.price,
                                     ![r].buyBody = k,
                                     ![r].off = SellArg(r)]
             /\ UNCHANGED <<buy, sell, results, loading, error, started, publisher,
                            lastEnd>>
  /\ UNCHANGED fnVars

\* await res.json() settles with body k for the exit price (lines 61-71, 88-99).
SellParsed(r, k) ==
  /\ runs[r].pc = "sell_json"
  /\ LET body == SellBody(r, k)
         out == ParseOHLC(body, Event(r).date, runs[r].off)
         rows == Append(runs[r].rows,
                        EventRow(Event(r), PctReturn(runs[r].buyP, out.price)))
     IN IF ~body.isJson THEN Throw(r, k, MsgNotJson)
        ELSE IF ~out.ok THEN Throw(r, k, out.msg)
        ELSE IF runs[r].i < Len(wwdcDates)
        THEN /\ runs' = [runs EXCEPT ![r].pc = "buy_fetch",
                                     ![r].i = runs[r].i + 1,
                                     ![r].rows = rows,
                                     ![r].src = Append(runs[r].src,
                                                       <<runs[r].buyBody, k>>),
                                     ![r].buyP = 0,
                                     ![r].buyBody = 0,
                                     ![r].off = BuyArg(r)]
             /\ UNCHANGED <<buy, sell, results, loading, error, started, publisher,
                            lastEnd>>
        ELSE /\ runs' = Without(r)
             /\ lastEnd' = [id |-> runs[r].id, pc |-> "ok", i |-> runs[r].i, body |-> 0]
             /\ results' = Rows(SummaryRows(rows))
             /\ publisher' = runs[r].id
             /\ loading' = LoadingOnFinally(FALSE)
             /\ UNCHANGED <<buy, sell, error, started>>
  /\ UNCHANGED fnVars

Settle ==
  \E r \in Slots :
    \/ FetchReject(r)
    \/ \E status \in Statuses : FetchResolve(r, status)
    \/ \E k \in 1..NumBodies : BuyParsed(r, k)
    \/ \E k \in 1..NumBodies : SellParsed(r, k)

InitFn ==
  /\ fIn = [body |-> Body(TRUE, TRUE, TRUE, <<>>, <<>>), date |-> "2019-06-03",
            offset |-> 0]
  /\ fOut = [done |-> FALSE, res |-> Threw("")]

InitUi ==
  /\ buy = buyOffsets[2]
  /\ sell = sellOffsets[1]
  /\ results = NoResults
  /\ loading = FALSE
  /\ error = NoError
  /\ runs = <<>>
  /\ started = 0
  /\ publisher = 0
  /\ lastEnd = NoEnd

Init == InitUi /\ InitFn

Next ==
  \/ \E k \in 1..Len(buyOffsets) : SetBuy(k)
  \/ \E k \in 1..Len(sellOffsets) : SetSell(k)
  \/ Click
  \/ Settle

Spec == Init /\ [][Next]_vars

\* Every fetch and every res.json() eventually settles.
FairSpec == Spec /\ WF_vars(Settle)

\* --------------------------------------------------- fetchOHLC, as a function

\* The strictly increasing sequence of the members of a set of integers.
SortedSeq(S) ==
  CHOOSE q \in [1..Cardinality(S) -> S] :
    \A i, j \in 1..Cardinality(S) : i < j => q[i] < q[j]

\* A series of n sessions: each close is 100 + its index, so that no two agree.
DistinctCloses(n) == [i \in 1..n |-> Num(100 + i - 1)]

\* The series tried: sessions on up to MaxLen of the five days around the date,
\* stamped at the start or at the last second of their day; the closes complete,
\* cut short, or with one of them null or zero.
SeriesOn(d) ==
  LET days == {S \in SUBSET (-2..2) : Cardinality(S) <= MaxLen}
  IN UNION {
       LET n == Cardinality(S)
           ts == [i \in 1..n |-> toEpoch(d) + SortedSeq(S)[i] * DaySecs + secs]
           full == DistinctCloses(n)
       IN {Body(TRUE, TRUE, TRUE, ts, SubSeq(full, 1, m)) : m \in 0..n}
          \cup {Body(TRUE, TRUE, TRUE, ts, [full EXCEPT ![p] = hole]) :
                  p \in 1..n, hole \in {Null, Num(0)}}
       : S \in days, secs \in {0, DaySecs - 1} }

FnInputs ==
  [body : SeriesOn("2019-06-03")
          \cup {Body(TRUE, FALSE, FALSE, <<>>, <<>>), Body(TRUE, TRUE, FALSE, <<>>, <<>>)},
   date : {"2019-06-03"},
   offset : (-MaxOff)..MaxOff]

InitFetch ==
  /\ InitUi
  /\ fIn \in FnInputs
  /\ fOut = [done |-> FALSE, res |-> Threw("")]

\* One call fetchOHLC(date, offset) on a parsed body: lines 62-71.
Apply ==
  /\ ~fOut.done
  /\ fOut' = [done |-> TRUE, res |-> ParseOHLC(fIn.body, fIn.date, fIn.offset)]
  /\ UNCHANGED <<buy, sell, results, loading, error, runs, started, publisher,
                 lastEnd, fIn>>

NextFetch == Apply

SpecFetch == InitFetch /\ [][NextFetch]_vars

\* ------------------------------------------------------------------ claims

N == Len(wwdcDates)

\* The session of date d in a body, located without findIndex: the set of indices
\* whose day is d's (at most one in the series used here).
Anchors(body, d) ==
  {i \in 0..(Len(body.timestamp) - 1) :
     At(body.timestamp, i) \div 86400 = toEpoch(d) \div 86400}

HasSeries(body) == body.isJson /\ body.hasResult /\ body.hasTimestamp

\* The close a body holds offset sessions from date d: a number, null, or
\* nothing at all.
CloseAt(body, d, offset) ==
  IF ~HasSeries(body) \/ Anchors(body, d) = {} THEN [t |-> "none", v |-> 0]
  ELSE LET t == (CHOOSE i \in Anchors(body, d) : TRUE) + offset
       IN IF t < 0 \/ t >= Len(body.close) THEN [t |-> "none", v |-> 0]
          ELSE At(body.close, t)

\* C1: a failure of any event's price lookup ends the run at that event and
\* publishes nothing of it: results is null or the complete list of a run that
\* succeeded (never a list of some events' rows), the invocation is gone, and
\* results is not from the failed run.
C1_NoPartialResults ==
  /\ ~results.isNull =>
       /\ Len(results.rows) = N + 3
       /\ publisher # 0
       /\ \A j \in 1..N : results.rows[j].typ = "number"
  /\ lastEnd.pc = "failed" =>
       /\ publisher # lastEnd.id
       /\ \A r \in Slots : runs[r].id # lastEnd.id
       /\ ~error.isNull

\* C1's case: a run failed at its second event, after the first event's row was held.
C1_Witness ==
  /\ lastEnd.pc = "failed"
  /\ lastEnd.i = 2
  /\ results.isNull

\* C2: when the event's date matches no session of the fetched series, the run
\* ends with an error that is not the offset-out-of-range error, and publishes
\* nothing.
C2_DateNotInSeries ==
  (/\ lastEnd.pc = "failed"
   /\ lastEnd.body # 0
   /\ HasSeries(BodyTable[wwdcDates[lastEnd.i].date][lastEnd.body])
   /\ Anchors(BodyTable[wwdcDates[lastEnd.i].date][lastEnd.body],
              wwdcDates[lastEnd.i].date) = {})
  => /\ ~error.isNull
     /\ error.msg # MsgOffset
     /\ publisher # lastEnd.id

\* C3: with the date located at idx, fetchOHLC reads the close at idx + offset
\* exactly when 0 <= idx + offset < length, and throws the offset error for every
\* other sum; it never returns the close of another session (the closes of a
\* series are pairwise distinct here).
C3_ExactIndexOrThrow ==
  (fOut.done /\ HasSeries(fIn.body)) =>
    \A idx \in Anchors(fIn.body, fIn.date) :
      LET t == idx + fIn.offset
          closes == fIn.body.close
      IN IF 0 <= t /\ t < Len(closes)
           THEN IF At(closes, t).t = "null"
                  THEN fOut.res = Threw(MsgMissing)
                  ELSE fOut.res = Returned(At(closes, t).v)
           ELSE fOut.res = Threw(MsgOffset)

\* C3's case: the sum lies past the last session, where clamping would have
\* returned the last close, and the call threw.
C3_Witness ==
  /\ fOut.done
  /\ HasSeries(fIn.body)
  /\ \E idx \in Anchors(fIn.body, fIn.date) :
       /\ idx + fIn.offset >= Len(fIn.body.close)
       /\ Len(fIn.body.close) = Len(fIn.body.timestamp)
  /\ ~fOut.res.ok

\* C4: a price that is not positive never becomes an entry price, and no
\* published row holds Infinity or NaN.
C4_NoInvalidPrice ==
  /\ \A r \in Slots : runs[r].pc \in {"sell_fetch", "sell_json"} => runs[r].buyP > 0
  /\ ~results.isNull => \A j \in 1..Len(results.rows) : results.rows[j].ret.k = "fin"

\* C5: whenever results is set, it is one row per event, in the order of
\* wwdcDates, followed by exactly the rows Avg, StDev, WinRate in that order.
C5_RowOrder ==
  ~results.isNull =>
    /\ Len(results.rows) = N + 3
    /\ \A j \in 1..N :
         /\ results.rows[j].typ = "number"
         /\ results.rows[j].year = wwdcDates[j].year
    /\ <<results.rows[N + 1].tag, results.rows[N + 2].tag, results.rows[N + 3].tag>>
         = <<"Avg", "StDev", "WinRate">>
    /\ \A j \in (N + 1)..(N + 3) : results.rows[j].typ = "string"

\* C5's case: a run has published its rows.
C5_Witness ==
  /\ ~results.isNull
  /\ lastEnd.pc = "ok"
  /\ results.rows[N].typ = "number"

\* C6: at most one invocation is in flight, it is the one started last, and
\* results is never overwritten by an invocation older than the one it is from.
C6_OneRunInFlight ==
  /\ [](/\ Len(runs) <= 1
        /\ \A r \in Slots : runs[r].id = started)
  /\ [][publisher' >= publisher]_vars

\* C6's case: a second invocation is in flight after the first has published.
C6_Witness ==
  /\ Len(runs) = 1
  /\ runs[1].id = 2
  /\ publisher = 1

\* C7 as claimed: the two prices of an observation come from one fetched series.
C7_OneSeriesPerEvent ==
  \A r \in Slots : \A j \in 1..Len(runs[r].src) : runs[r].src[j][1] = runs[r].src[j][2]

\* C7 as amended: each of the two fetchOHLC calls of an event reads its price
\* from the body of its own fetch: the entry price is the close at anchor +
\* entry offset of the first body, the exit price the close at anchor + exit
\* offset of the second, the anchor located in each.
C7_OneSeriesPerCall ==
  \A r \in Slots :
    /\ runs[r].pc \in {"sell_fetch", "sell_json"} =>
         Num(runs[r].buyP) = CloseAt(BodyOf(r, runs[r].buyBody), Event(r).date,
                                     runs[r].buy.val)
    /\ Len(runs[r].src) = Len(runs[r].rows)
    /\ \A j \in 1..Len(runs[r].rows) :
         LET d == wwdcDates[j].date
             entry == CloseAt(BodyTable[d][runs[r].src[j][1]], d, runs[r].buy.val)
             exit == CloseAt(BodyTable[d][runs[r].src[j][2]], d, runs[r].sell.val)
         IN /\ entry.t = "num"
            /\ exit.t = "num"
            /\ runs[r].rows[j].ret = PctReturn(entry.v, exit.v)

\* C7's case: a row was computed from the bodies of two different answers.
C7_Witness ==
  \E r \in Slots : \E j \in 1..Len(runs[r].src) :
    /\ runs[r].src[j][1] # runs[r].src[j][2]
    /\ runs[r].rows[j].ret # Fin(0)

\* The step in which invocation id ends.
Ends(id) == lastEnd'.id = id /\ lastEnd.id # id

\* C8: loading is true exactly while an invocation is in flight; the step that
\* ends one leaves loading false and either results set to its rows or error set;
\* and, every fetch settling, every invocation started ends so.
C8_UiStateMachine ==
  /\ [](loading <=> runs # <<>>)
  /\ [][\A r \in Slots : Ends(runs[r].id) =>
          /\ ~loading'
          /\ \/ /\ lastEnd'.pc = "ok"
                /\ ~results'.isNull
                /\ Len(results'.rows) = N + 3
                /\ SubSeq(results'.rows, 1, N - 1) = runs[r].rows
                /\ error' = error
             \/ /\ lastEnd'.pc = "failed"
                /\ ~error'.isNull
                /\ error'.msg # ""]_vars
  /\ \A id \in 1..MaxRuns :
       (\E r \in Slots : runs[r].id = id)
         ~> (lastEnd.id = id /\ ~loading /\ (~results.isNull \/ ~error.isNull))

\* C8's case: the second invocation has ended with its rows, back to idle.
C8_Witness ==
  /\ lastEnd.id = 2
  /\ lastEnd.pc = "ok"
  /\ ~loading
  /\ publisher = 2

\* C9: starting a run clears error and leaves results; a failure sets error and
\* loading only, so results keeps the rows of an earlier run.
C9_FailureKeepsResults ==
  [][/\ started' # started => results' = results /\ error'.isNull
     /\ (lastEnd'.pc = "failed" /\ lastEnd' # lastEnd) =>
          /\ results' = results
          /\ publisher' = publisher
          /\ ~error'.isNull
          /\ ~loading']_vars

\* C9's case: after a run that succeeded, a run failed: rows and error both held.
C9_Witness ==
  /\ lastEnd.pc = "failed"
  /\ lastEnd.id = 2
  /\ publisher = 1
  /\ ~results.isNull
  /\ ~error.isNull

\* C10: every fetchOHLC call of an invocation is made with the offset selected
\* when the invocation started, whatever is selected since; the selects stay
\* enabled while it is in flight.
C10_OffsetsFixedAtStart ==
  /\ \A r \in Slots :
       runs[r].off = IF runs[r].pc \in {"buy_fetch", "buy_json"}
                       THEN runs[r].buy.val ELSE runs[r].sell.val
  /\ loading => ENABLED (\E k \in 1..Len(buyOffsets) : SetBuy(k))
  /\ loading => ENABLED (\E k \in 1..Len(sellOffsets) : SetSell(k))

\* C10's case: both selections changed during a run that went on to its second event.
C10_Witness ==
  \E r \in Slots :
    /\ runs[r].i = 2
    /\ runs[r].buy # buy
    /\ runs[r].sell # sell
    /\ runs[r].pc = "sell_json"

=============================================================================
